---- MODULE Spec2Model ----
(***************************************************************************)
(* Model of the auth service of src/auth/src/server.rs: the two handlers   *)
(* AuthService::login and AuthService::validate, the static credential     *)
(* map, the per-process session_id, the r2d2 connection pool and the Redis *)
(* key space the handlers write and read.                                  *)
(*                                                                         *)
(* Each handler runs in four steps, between which other calls run and time *)
(* passes: the code up to the call of pool.get(), in which the handler     *)
(* then waits; the return of pool.get(), with a connection or with an Err; *)
(* the execution of its one Redis command by the Redis server, while the   *)
(* handler is blocked in set_ex or get; and the return of that call with   *)
(* the rest of the function (the pooled connection is dropped when the     *)
(* function is left, also by a panic). A command that Redis has executed   *)
(* can still come back to the handler as an Err, when its answer is lost.  *)
(***************************************************************************)
EXTENDS Integers, Sequences, FiniteSets, Bags, TLC

\* ------------------------------------------------------------------ bounds
\* Tokens Uuid::new_v4() hands out during a run.
MaxTokens == 2
\* Service processes started during a run (the first one and its restarts).
MaxInstances == 2
\* Connections of the pool (r2d2's max_size): as many calls can be between
\* the return of their pool.get() and their own return.
PoolSize == 1
\* The clock takes the values 0, TickStep (less than ttl) and the number of
\* seconds set_ex is given.
TickStep == 30
\* Calls in flight at a time (waiting in pool.get() or holding a
\* connection): more than the pool has connections.
MaxCalls == 2
\* Calls in flight at a time (waiting in pool.get() or holding a
\* connection), in the specifications of one process whose requests carry
\* trace metadata or whose Redis has another client.
MaxTraced == 1

\* --------------------------------------------------------------- constants
\* let ttl = Duration::from_secs(60);
TtlSecs == 60
\* Duration::as_millis: milliseconds in a second.
MillisPerSec == 1000

\* const USERS
USERS ==
    << [name |-> "root", password |-> "admin"],
       [name |-> "user", password |-> "user"] >>

RECURSIVE InsertAll(_, _)
\* The loop of PASSWORDS: map.insert(name, password) for each user in order,
\* a later insert replacing an earlier one for the same name.
InsertAll(map, users) ==
    IF users = << >> THEN map
    ELSE LET u == Head(users)
             m == [n \in DOMAIN map \cup {u.name} |->
                      IF n = u.name THEN u.password ELSE map[n]]
         IN InsertAll(m, Tail(users))

\* static PASSWORDS: Lazy<HashMap<String, String>>
PASSWORDS == InsertAll(<< >>, USERS)

\* Request bodies the clients send.
UserInputs == {"root", "user", "guest"}
PasswordInputs == {"admin", "user"}
\* The same, a pair for each way the credential check goes: the two
\* registered pairs, a registered name with the password of another user, and
\* an unregistered name with a registered password.
LoginInputs ==
    { <<"root", "admin">>, <<"user", "user">>, <<"root", "user">>,
      <<"guest", "admin">> }
\* Token strings: 1, 2, ... are the strings the issuer produces, in the order
\* it produces them; 0 is a string it never produces ("not-a-real-token").
NotAToken == 0

\* What the store layer answers a handler: r2d2_redis::redis::Value as GET
\* (Nil, Data) and SETEX (Okay) answer, the Err of a command, the Err of
\* pool.get().
Nil == [kind |-> "Nil", data |-> 0]
Data(v) == [kind |-> "Data", data |-> v]
Okay == [kind |-> "Okay", data |-> 0]
StoreErr == [kind |-> "Err", data |-> 0]
PoolErr == [kind |-> "PoolErr", data |-> 0]
NoValue == [kind |-> "None", data |-> 0]

\* tonic::Status and the other ways a handler ends.
Unauthenticated(msg) ==
    [status |-> "Unauthenticated", msg |-> msg, token |-> 0, expire_at |-> 0]
Internal(msg) ==
    [status |-> "Internal", msg |-> msg, token |-> 0, expire_at |-> 0]
\* Ok(Response::new(LoginResponse { token, expire_at }))
LoginOk(token, expire_at) ==
    [status |-> "Ok", msg |-> "", token |-> token, expire_at |-> expire_at]
\* Ok(Response::new(ValidateResponse {}))
ValidateOk == [status |-> "Ok", msg |-> "", token |-> 0, expire_at |-> 0]
\* .unwrap() on an Err: the handler panics and no Status is returned.
Panicked(msg) ==
    [status |-> "Panic", msg |-> msg, token |-> 0, expire_at |-> 0]
NoResult == [status |-> "None", msg |-> "", token |-> 0, expire_at |-> 0]

\* ----------------------------------------------------------------- tracing
\* What a request carries in its gRPC metadata for the propagator: no trace
\* header, a trace header of a caller's span, or a header value that is not
\* a string or not a trace context.
MetaInputs == {"none", "valid", "garbled"}

\* The parent of a span: none, or the span of the caller.
NoParent == 0
RemoteParent == 1

\* global::get_text_map_propagator(|prop| prop.extract(&MetadataMap(..))):
\* MetadataMap::get answers None for a value that is not a string, and the
\* propagator answers the empty context for a header it cannot read.
Extract(meta) == IF meta = "valid" THEN RemoteParent ELSE NoParent

\* A span: its name, its parent, the last event added, the "error" attribute
\* and the error recorded.
NoSpan ==
    [name |-> "", parent |-> NoParent, event |-> "", error |-> FALSE,
     recorded |-> ""]

\* global::tracer(APPLICATION_ID).start_with_context(name, &parent_cx)
StartSpan(name, meta) ==
    [NoSpan EXCEPT !.name = name, !.parent = Extract(meta)]

\* span.add_event(name, vec![])
AddEvent(span, name) == [span EXCEPT !.event = name]

\* span.set_attribute(KeyValue::new("error", true)); span.record_error(&err):
\* of the error recorded the span keeps the text, the message of the Status
\* or the text of the FromUtf8Error (which is the message of the Status the
\* handler then builds).
RecordError(span, status) ==
    [span EXCEPT !.error = TRUE, !.recorded = status.msg]

\* ------------------------------------------------------------------- calls
\* A handler invocation: its request, what it has computed so far, its span,
\* whether its caller has cancelled it, and what Redis has answered its
\* command: NoValue until Redis has executed the command, then the answer
\* that is on its way to the handler.
NoCall ==
    [op |-> "none", user |-> "", password |-> "", token |-> 0,
     span |-> NoSpan, cancelled |-> FALSE, value |-> NoValue]
LoginCall(user, password, token, span) ==
    [NoCall EXCEPT !.op = "login", !.user = user, !.password = password,
                   !.token = token, !.span = span]
ValidateCall(token, span) ==
    [NoCall EXCEPT !.op = "validate", !.token = token, !.span = span]

\* How a handler has ended: the request as far as the handler has used it,
\* what Redis answered its command (got; NoValue if Redis did not execute
\* one), what the store layer gave the handler (value: that answer, or an
\* Err), the way the handler ended, and the span as the handler left it. The
\* answer to a call that was cancelled has no reader.
Reply(call, value, result, span) ==
    [op |-> call.op, user |-> call.user, password |-> call.password,
     token |-> call.token, got |-> call.value, value |-> value,
     result |-> result, span |-> span, cancelled |-> call.cancelled]

NoReply == Reply(NoCall, NoValue, NoResult, NoSpan)

VARIABLES
    now,         \* SystemTime::now(), in seconds
    session_id,  \* AuthService.session_id of the running process
    store,       \* the Redis key space: token -> [value, expires]
    inUse,       \* connections of self.pool that are checked out
    waiting,     \* the bag of handler invocations waiting in pool.get()
    calls,       \* the bag of handler invocations holding a connection
    nextToken,   \* tokens handed out so far by Uuid::new_v4() in login
    issued,      \* the tokens Login has returned so far: token -> owner
    reply        \* the answer of the handler that has just ended, if any

vars ==
    << now, session_id, store, inUse, waiting, calls, nextToken, issued,
       reply >>

\* The values of the clock: the start, a time less than ttl later, and the
\* time at which a key set at the start expires.
TimePoints ==
    {0, TickStep, TtlSecs * MillisPerSec}

\* ------------------------------------------------------------------- store
\* Redis GET: the value of a key that is set and has not expired, else nil.
RedisGet(s, key, t) ==
    IF key \in DOMAIN s /\ t < s[key].expires THEN Data(s[key].value) ELSE Nil

\* Redis SETEX key seconds value: sets the value, to expire after `seconds`.
RedisSetEx(s, key, value, seconds, t) ==
    [k \in DOMAIN s \cup {key} |->
        IF k = key THEN [value |-> value, expires |-> t + seconds] ELSE s[k]]

\* Mutant of SetExArg: the ttl handed over in minutes.
SetExArgMinutes(ttl) == ttl \div 60

\* ttl.as_millis() as usize, the third argument of conn.set_ex
SetExArg(ttl) == ttl * MillisPerSec

\* Mutant of ExpireAt: the number given to set_ex added to the clock.
ExpireAtMillis(t, ttl) == t + ttl * MillisPerSec

\* SystemTime::now().add(ttl)
ExpireAt(t, ttl) == t + ttl

\* ------------------------------------------------------------------- login
\* Mutant of LoginCheck: one message for both rejections.
LoginCheckOneMessage(user, password) ==
    IF user \notin DOMAIN PASSWORDS \/ PASSWORDS[user] # password
    THEN Unauthenticated("wrong password")
    ELSE NoResult

\* Mutant of LoginCheck: the password is not compared.
LoginCheckNoPassword(user, password) ==
    IF user \notin DOMAIN PASSWORDS THEN Unauthenticated("user not found")
    ELSE NoResult

\* Lines 89-103 of login: the credential check.
LoginCheck(user, password) ==
    IF user \notin DOMAIN PASSWORDS THEN Unauthenticated("user not found")
    ELSE IF PASSWORDS[user] # password THEN Unauthenticated("wrong password")
    ELSE NoResult

\* Lines 111-118 of login: the result of set_ex, unwrapped, and the response.
LoginResult(value, token, expire_at) ==
    IF value = Okay THEN LoginOk(token, expire_at) ELSE Panicked("set_ex")

\* ---------------------------------------------------------------- validate
\* The text of err.to_string() for a failed Redis command.
RedisErrorText == "redis error"

\* Stored bytes that are not UTF-8, and String::from_utf8 on stored bytes.
NotUtf8 == -1
FromUtf8Ok(bytes) == bytes # NotUtf8
\* The text of err.to_string() for a FromUtf8Error.
Utf8ErrorText == "invalid utf-8"

\* Mutant of ValidateMatch: any stored value passes.
ValidateMatchAnyOwner(value, self_session_id) ==
    IF value.kind = "Data" THEN ValidateOk
    ELSE IF value.kind = "Err" THEN Unauthenticated(RedisErrorText)
    ELSE Unauthenticated("wrong redis response: nil")

\* Mutant of ValidateMatch: the comparison the wrong way round.
ValidateMatchFlipped(value, self_session_id) ==
    IF value.kind = "Data"
    THEN IF value.data = self_session_id
         THEN Unauthenticated("wrong session ID")
         ELSE ValidateOk
    ELSE IF value.kind = "Err" THEN Unauthenticated(RedisErrorText)
    ELSE Unauthenticated("wrong redis response: nil")

\* Mutant of ValidateMatch: the bytes are decoded without a check (as with
\* String::from_utf8_lossy), so bytes that are not UTF-8 are one more value
\* that differs from the session_id.
ValidateMatchLossy(value, self_session_id) ==
    IF value.kind = "Data"
    THEN IF value.data # self_session_id
         THEN Unauthenticated("wrong session ID")
         ELSE ValidateOk
    ELSE IF value.kind = "Err"
    THEN Unauthenticated(RedisErrorText)
    ELSE Unauthenticated("wrong redis response: nil")

\* The match on the result of conn.get in validate, lines 133-167.
ValidateMatch(value, self_session_id) ==
    IF value.kind = "Data"
    THEN IF ~FromUtf8Ok(value.data)
         THEN Internal(Utf8ErrorText)
         ELSE IF value.data # self_session_id
         THEN Unauthenticated("wrong session ID")
         ELSE ValidateOk
    ELSE IF value.kind = "Err"
    THEN Unauthenticated(RedisErrorText)
    ELSE Unauthenticated("wrong redis response: nil")

\* The time at which Redis executed the SETEX of a key.
StoredAt(token) == store[token].expires - SetExArg(TtlSecs)

\* A Login of the running process has returned this token, and fewer than
\* ttl seconds have passed since Redis stored its session.
Fresh(token) ==
    /\ token \in DOMAIN issued
    /\ issued[token].owner = session_id
    /\ now < StoredAt(token) + TtlSecs

\* The token strings a Validate request can carry: those a Login has
\* returned to a caller, and one the issuer never produces.
TokenInputs == {NotAToken} \cup DOMAIN issued

Init ==
    /\ now = 0
    /\ session_id = 1
    /\ store = << >>
    /\ inUse = 0
    /\ waiting = EmptyBag
    /\ calls = EmptyBag
    /\ nextToken = 0
    /\ issued = << >>
    /\ reply = NoReply

\* Mutant of LoginBegin: the token is drawn before the credentials are
\* checked.
LoginBeginCheckLast(user, password, meta) ==
    LET span0 == StartSpan("login", meta)
        span1 == IF user \in DOMAIN PASSWORDS
                 THEN AddEvent(span0, "user well known")
                 ELSE span0
        r == LoginCheck(user, password)
        token == nextToken + 1
    IN IF r # NoResult
       THEN [reply |-> Reply(LoginCall(user, password, NotAToken, NoSpan),
                             NoValue, r, RecordError(span1, r)),
             call |-> NoCall, drew |-> TRUE]
       ELSE [reply |-> NoReply,
             call |-> LoginCall(user, password, token, span1), drew |-> TRUE]

\* Mutant of LoginBegin: every call draws the same token.
LoginBeginSameToken(user, password, meta) ==
    LET span0 == StartSpan("login", meta)
        span1 == IF user \in DOMAIN PASSWORDS
                 THEN AddEvent(span0, "user well known")
                 ELSE span0
        r == LoginCheck(user, password)
        token == 1
    IN IF r # NoResult
       THEN [reply |-> Reply(LoginCall(user, password, NotAToken, NoSpan),
                             NoValue, r, RecordError(span1, r)),
             call |-> NoCall, drew |-> FALSE]
       ELSE [reply |-> NoReply,
             call |-> LoginCall(user, password, token, span1), drew |-> TRUE]

\* Lines 82-105 of login, for a request with this body and this metadata:
\* the span, the credential check and the token. The handler ends here with
\* a reply (rejected), or goes on, with its token drawn, to pool.get(). A
\* rejected request does not reach Uuid::new_v4() and pool.get().
LoginBegin(user, password, meta) ==
    LET span0 == StartSpan("login", meta)
        span1 == IF user \in DOMAIN PASSWORDS
                 THEN AddEvent(span0, "user well known")
                 ELSE span0
        r == LoginCheck(user, password)
        token == nextToken + 1
    IN IF r # NoResult
       THEN [reply |-> Reply(LoginCall(user, password, NotAToken, NoSpan),
                             NoValue, r, RecordError(span1, r)),
             call |-> NoCall, drew |-> FALSE]
       ELSE [reply |-> NoReply,
             call |-> LoginCall(user, password, token, span1), drew |-> TRUE]

\* Line 107 of login, for a call that waits in pool.get(): pool.get() returns
\* a connection, or an Err on which unwrap panics; the token the call has
\* drawn is dropped with the panic.
LoginPoolGet(call, pool_ok) ==
    IF pool_ok
    THEN [reply |-> NoReply, call |-> call, inUse |-> inUse + 1]
    ELSE [reply |-> Reply(call, PoolErr, Panicked("pool"), call.span),
          call |-> NoCall, inUse |-> inUse]

\* Mutant of LoginCommand: the first two arguments of set_ex the other way
\* round.
LoginCommandSwapped(call) ==
    LET ttl == TtlSecs
    IN [call |-> [call EXCEPT !.value = Okay],
        store |-> RedisSetEx(store, session_id, call.token, SetExArg(ttl), now)]

\* Lines 109-111 of login, for a call that holds a connection: Redis executes
\* the SETEX that set_ex has sent; its answer is on its way.
LoginCommand(call) ==
    LET ttl == TtlSecs
    IN [call |-> [call EXCEPT !.value = Okay],
        store |-> RedisSetEx(store, call.token, session_id, SetExArg(ttl), now)]

\* Mutant of LoginFinish: the connection does not go back to the pool when
\* set_ex fails.
LoginFinishLeaking(call, set_ok) ==
    LET ttl == TtlSecs
        token == call.token
        expire_at == ExpireAt(now, ttl)
        value == IF set_ok THEN call.value ELSE StoreErr
    IN [reply |-> Reply(call, value, LoginResult(value, token, expire_at),
                        call.span),
        issued |-> IF set_ok
                   THEN [t \in DOMAIN issued \cup {token} |->
                           IF t = token
                           THEN [owner |-> session_id]
                           ELSE issued[t]]
                   ELSE issued,
        inUse |-> IF set_ok THEN inUse - 1 ELSE inUse]

\* Lines 111-119 of login: set_ex returns, with the answer of Redis or, when
\* the command or its answer did not get through, with an Err; the clock is
\* read for expire_at; the response. The connection goes back to the pool
\* when the function is left.
LoginFinish(call, set_ok) ==
    LET ttl == TtlSecs
        token == call.token
        expire_at == ExpireAt(now, ttl)
        value == IF set_ok THEN call.value ELSE StoreErr
    IN [reply |-> Reply(call, value, LoginResult(value, token, expire_at),
                        call.span),
        issued |-> IF set_ok
                   THEN [t \in DOMAIN issued \cup {token} |->
                           IF t = token
                           THEN [owner |-> session_id]
                           ELSE issued[t]]
                   ELSE issued,
        inUse |-> inUse - 1]

\* A Login request arrives and runs up to the call of pool.get(), in which
\* it waits.
LoginStart(user, password, meta) ==
    /\ reply = NoReply
    /\ LET o == LoginBegin(user, password, meta)
       IN /\ o.drew => nextToken < MaxTokens
          /\ reply' = o.reply
          /\ nextToken' = IF o.drew THEN nextToken + 1 ELSE nextToken
          /\ waiting' = IF o.call # NoCall THEN waiting (+) SetToBag({o.call})
                        ELSE waiting
    /\ UNCHANGED << now, session_id, store, inUse, calls, issued >>

\* pool.get() returns in a Login. It gives a connection only if one is free;
\* it gives up when the pool stays exhausted past its timeout or no
\* connection can be opened. Other calls run and time passes while the call
\* waits.
LoginConnect(call, pool_ok) ==
    /\ reply = NoReply
    /\ BagIn(call, waiting)
    /\ call.op = "login"
    /\ pool_ok => inUse < PoolSize
    /\ LET o == LoginPoolGet(call, pool_ok)
       IN /\ reply' = o.reply
          /\ inUse' = o.inUse
          /\ calls' = IF o.call # NoCall THEN calls (+) SetToBag({o.call})
                      ELSE calls
    /\ waiting' = waiting (-) SetToBag({call})
    /\ UNCHANGED << now, session_id, store, nextToken, issued >>

\* Redis executes the SETEX of a Login. The handler is blocked in set_ex until
\* the answer has come back; other calls run and time passes meanwhile.
LoginStore(call) ==
    /\ reply = NoReply
    /\ BagIn(call, calls)
    /\ call.op = "login"
    /\ call.value = NoValue
    /\ LET o == LoginCommand(call)
       IN /\ store' = o.store
          /\ calls' = (calls (-) SetToBag({call})) (+) SetToBag({o.call})
    /\ UNCHANGED << now, session_id, inUse, waiting, nextToken, issued, reply >>

\* set_ex returns in a Login and the handler runs to its end. It returns Ok
\* only with the answer of Redis; it returns an Err when the command did not
\* reach Redis, and also when Redis has executed it and the answer is lost.
LoginReturn(call, set_ok) ==
    /\ reply = NoReply
    /\ BagIn(call, calls)
    /\ call.op = "login"
    /\ set_ok => call.value # NoValue
    /\ LET o == LoginFinish(call, set_ok)
       IN /\ reply' = o.reply
          /\ issued' = o.issued
          /\ inUse' = o.inUse
    /\ calls' = calls (-) SetToBag({call})
    /\ UNCHANGED << now, session_id, store, waiting, nextToken >>

\* Mutant of ValidateBegin: a trace header that cannot be read fails the
\* request.
ValidateBeginTraceChecked(token, meta) ==
    LET span0 == StartSpan("validate", meta)
    IN IF meta = "garbled"
       THEN [reply |-> Reply(ValidateCall(token, NoSpan),
                             NoValue, Internal("trace"), span0),
             call |-> NoCall]
       ELSE [reply |-> NoReply,
             call |-> ValidateCall(token, span0)]

\* Lines 124-129 of validate, for a request with this token and this
\* metadata: the span. The handler goes on to pool.get().
ValidateBegin(token, meta) ==
    LET span0 == StartSpan("validate", meta)
    IN [reply |-> NoReply,
        call |-> ValidateCall(token, span0)]

\* Line 131 of validate, for a call that waits in pool.get(): pool.get()
\* returns a connection, or an Err on which unwrap panics. The handler that
\* panics here has not used the token.
ValidatePoolGet(call, pool_ok) ==
    IF pool_ok
    THEN [reply |-> NoReply, call |-> call, inUse |-> inUse + 1]
    ELSE [reply |-> Reply([call EXCEPT !.token = NotAToken],
                          PoolErr, Panicked("pool"), call.span),
          call |-> NoCall, inUse |-> inUse]

\* Mutant of ValidateCommand: a token is good for one Validate (the key is
\* removed once its value has been read).
ValidateCommandDeleting(call) ==
    LET value == RedisGet(store, call.token, now)
    IN [call |-> [call EXCEPT !.value = value],
        store |-> IF value.kind = "Data"
                  THEN [k \in DOMAIN store \ {call.token} |-> store[k]]
                  ELSE store]

\* Line 133 of validate, for a call that holds a connection: Redis executes
\* the GET that conn.get has sent; its answer is on its way.
ValidateCommand(call) ==
    LET value == RedisGet(store, call.token, now)
    IN [call |-> [call EXCEPT !.value = value],
        store |-> store]

\* Lines 133-167 of validate: conn.get returns, with the answer of Redis or
\* with an Err; the match, the span and the response. The connection goes
\* back to the pool when the function is left. Every arm but the successful
\* one marks the span; the successful one adds an event.
ValidateFinish(call, get_ok) ==
    LET value == IF get_ok THEN call.value ELSE StoreErr
        r == ValidateMatch(value, session_id)
        span == IF r = ValidateOk
                THEN AddEvent(call.span, "token exists in redis")
                ELSE RecordError(call.span, r)
    IN [reply |-> Reply(call, value, r, span),
        inUse |-> inUse - 1]

\* A Validate request arrives and runs up to the call of pool.get(), in
\* which it waits.
ValidateStart(token, meta) ==
    /\ reply = NoReply
    /\ LET o == ValidateBegin(token, meta)
       IN /\ reply' = o.reply
          /\ waiting' = IF o.call # NoCall THEN waiting (+) SetToBag({o.call})
                        ELSE waiting
    /\ UNCHANGED << now, session_id, store, inUse, calls, nextToken, issued >>

\* pool.get() returns in a Validate, as in a Login.
ValidateConnect(call, pool_ok) ==
    /\ reply = NoReply
    /\ BagIn(call, waiting)
    /\ call.op = "validate"
    /\ pool_ok => inUse < PoolSize
    /\ LET o == ValidatePoolGet(call, pool_ok)
       IN /\ reply' = o.reply
          /\ inUse' = o.inUse
          /\ calls' = IF o.call # NoCall THEN calls (+) SetToBag({o.call})
                      ELSE calls
    /\ waiting' = waiting (-) SetToBag({call})
    /\ UNCHANGED << now, session_id, store, nextToken, issued >>

\* Redis executes the GET of a Validate. The handler is blocked in conn.get
\* until the answer has come back; other calls run and time passes meanwhile.
ValidateGet(call) ==
    /\ reply = NoReply
    /\ BagIn(call, calls)
    /\ call.op = "validate"
    /\ call.value = NoValue
    /\ LET o == ValidateCommand(call)
       IN /\ store' = o.store
          /\ calls' = (calls (-) SetToBag({call})) (+) SetToBag({o.call})
    /\ UNCHANGED << now, session_id, inUse, waiting, nextToken, issued, reply >>

\* conn.get returns in a Validate and the handler runs to its end. It returns
\* Ok only with the answer of Redis.
ValidateReturn(call, get_ok) ==
    /\ reply = NoReply
    /\ BagIn(call, calls)
    /\ call.op = "validate"
    /\ get_ok => call.value # NoValue
    /\ LET o == ValidateFinish(call, get_ok)
       IN /\ reply' = o.reply
          /\ inUse' = o.inUse
    /\ calls' = calls (-) SetToBag({call})
    /\ UNCHANGED << now, session_id, store, waiting, nextToken, issued >>

\* The process is restarted: main builds a new pool and AuthService::new
\* draws a new session_id. The calls of the old process are gone with it;
\* Redis keeps its keys.
Restart ==
    /\ reply = NoReply
    /\ session_id < MaxInstances
    /\ session_id' = session_id + 1
    /\ inUse' = 0
    /\ waiting' = EmptyBag
    /\ calls' = EmptyBag
    /\ UNCHANGED << now, store, nextToken, issued, reply >>

\* Time passes.
Tick ==
    /\ reply = NoReply
    /\ \E t \in TimePoints : t > now /\ now' = t
    /\ UNCHANGED << session_id, store, inUse, waiting, calls, nextToken,
                    issued, reply >>

\* The answer of the handler that has just ended goes to its caller. An answer
\* is handed over before the next step is taken: it is looked at in the state
\* the handler left.
Deliver ==
    /\ reply # NoReply
    /\ reply' = NoReply
    /\ UNCHANGED << now, session_id, store, inUse, waiting, calls, nextToken,
                    issued >>

\* A call in flight: it waits in pool.get() or holds a connection.
InFlight == waiting (+) calls

\* The service and its clients, whose requests carry no trace header. tonic
\* serves the requests at the same time: up to MaxCalls calls are in flight,
\* of which as many hold a connection as the pool has while the others wait
\* for one.
Next ==
    \/ \E r \in LoginInputs :
          LoginStart(r[1], r[2], "none")
             /\ BagCardinality(waiting') + BagCardinality(calls') <= MaxCalls
    \/ \E call \in BagToSet(waiting), ok \in BOOLEAN : LoginConnect(call, ok)
    \/ \E call \in BagToSet(calls) : LoginStore(call)
    \/ \E call \in BagToSet(calls), ok \in BOOLEAN : LoginReturn(call, ok)
    \/ \E t \in TokenInputs :
          ValidateStart(t, "none") /\ BagCardinality(waiting') + BagCardinality(calls') <= MaxCalls
    \/ \E call \in BagToSet(waiting), ok \in BOOLEAN :
          ValidateConnect(call, ok)
    \/ \E call \in BagToSet(calls) : ValidateGet(call)
    \/ \E call \in BagToSet(calls), ok \in BOOLEAN : ValidateReturn(call, ok)
    \/ Restart
    \/ Tick
    \/ Deliver

Spec == Init /\ [][Next]_vars

\* Redis is a server of its own ("redis://127.0.0.1"): another client of it
\* sets a key, with the command and the lifetime of the service's sessions,
\* to bytes that are not UTF-8.
ForeignBytes == {NotUtf8}
ForeignWrite(key, bytes) ==
    /\ reply = NoReply
    /\ ~(key \in DOMAIN store /\ store[key].value = bytes)
    /\ store' = RedisSetEx(store, key, bytes, TtlSecs, now)
    /\ UNCHANGED << now, session_id, inUse, waiting, calls, nextToken, issued,
                    reply >>

\* The caller of a call in flight cancels it. The handlers have no .await
\* and pool.get() and the Redis commands are blocking calls: the future is
\* polled to its end in one go and nothing stops the command; the call goes
\* on and its connection stays checked out until the handler returns.
Cancel(call) ==
    /\ reply = NoReply
    /\ ~call.cancelled
    /\ \/ /\ BagIn(call, waiting)
          /\ waiting' = (waiting (-) SetToBag({call}))
                           (+) SetToBag({[call EXCEPT !.cancelled = TRUE]})
          /\ calls' = calls
       \/ /\ BagIn(call, calls)
          /\ calls' = (calls (-) SetToBag({call}))
                         (+) SetToBag({[call EXCEPT !.cancelled = TRUE]})
          /\ waiting' = waiting
    /\ UNCHANGED << now, session_id, store, inUse, nextToken, issued, reply >>

\* One process of the service and clients whose requests carry any trace
\* metadata and any request body, with at most MaxTraced calls in flight at
\* a time.
NextTraced ==
    \/ \E u \in UserInputs, p \in PasswordInputs, m \in MetaInputs :
          LoginStart(u, p, m)
             /\ BagCardinality(waiting') + BagCardinality(calls') <= MaxTraced
    \/ \E call \in BagToSet(waiting), ok \in BOOLEAN : LoginConnect(call, ok)
    \/ \E call \in BagToSet(calls) : LoginStore(call)
    \/ \E call \in BagToSet(calls), ok \in BOOLEAN : LoginReturn(call, ok)
    \/ \E t \in TokenInputs, m \in MetaInputs :
          ValidateStart(t, m)
             /\ BagCardinality(waiting') + BagCardinality(calls') <= MaxTraced
    \/ \E call \in BagToSet(waiting), ok \in BOOLEAN :
          ValidateConnect(call, ok)
    \/ \E call \in BagToSet(calls) : ValidateGet(call)
    \/ \E call \in BagToSet(calls), ok \in BOOLEAN : ValidateReturn(call, ok)
    \/ Tick
    \/ Deliver

SpecTraced == Init /\ [][NextTraced]_vars

\* One process of the service, with at most MaxTraced calls in flight at a
\* time, and the other client of Redis.
NextForeign ==
    \/ \E c \in LoginInputs :
          LoginStart(c[1], c[2], "none")
             /\ BagCardinality(waiting') + BagCardinality(calls') <= MaxTraced
    \/ \E call \in BagToSet(waiting), ok \in BOOLEAN : LoginConnect(call, ok)
    \/ \E call \in BagToSet(calls) : LoginStore(call)
    \/ \E call \in BagToSet(calls), ok \in BOOLEAN : LoginReturn(call, ok)
    \/ \E t \in TokenInputs :
          ValidateStart(t, "none")
             /\ BagCardinality(waiting') + BagCardinality(calls') <= MaxTraced
    \/ \E call \in BagToSet(waiting), ok \in BOOLEAN :
          ValidateConnect(call, ok)
    \/ \E call \in BagToSet(calls) : ValidateGet(call)
    \/ \E call \in BagToSet(calls), ok \in BOOLEAN : ValidateReturn(call, ok)
    \/ \E key \in TokenInputs, bytes \in ForeignBytes : ForeignWrite(key, bytes)
    \/ Tick
    \/ Deliver

SpecForeign == Init /\ [][NextForeign]_vars

\* All the surroundings of the service: the other client of Redis, callers
\* that cancel, and restarts of the process, with requests that carry any
\* trace metadata and any request body.
NextOpen ==
    \/ NextTraced
    \/ \E key \in TokenInputs, bytes \in ForeignBytes : ForeignWrite(key, bytes)
    \/ \E call \in BagToSet(InFlight) : Cancel(call)
    \/ Restart

SpecOpen == Init /\ [][NextOpen]_vars

\* ------------------------------------------------------------------ claims
\* The user names and the (name, password) pairs of USERS.
Registered(user) == \E i \in DOMAIN USERS : USERS[i].name = user
RegisteredPair(user, password) ==
    \E i \in DOMAIN USERS :
        USERS[i].name = user /\ USERS[i].password = password
WrongPassword(user, password) ==
    Registered(user) /\ ~RegisteredPair(user, password)

\* The key is set in Redis and has not expired.
InStore(token) == token \in DOMAIN store /\ now < store[token].expires

\* The store layer answered the handler's command: neither pool.get() nor
\* the command failed.
StoreAnswered(r) == r.value.kind \notin {"Err", "PoolErr", "None"}

\* The answer at hand is that of a Validate for a token which a Login of the
\* running process has returned.
ValidateOfOwnToken ==
    /\ reply.op = "validate"
    /\ reply.token \in DOMAIN issued
    /\ issued[reply.token].owner = session_id

\* C1 as claimed: a Validate(T) that starts on the instance that returned T,
\* after that Login completed and fewer than 60 seconds after it, succeeds.
\* (Checked for the Validates that also end within those 60 seconds.)
C1_RoundTrip_AsClaimed ==
    (reply.op = "validate" /\ Fresh(reply.token))
        => reply.result.status = "Ok"

\* C1, amended: for a Validate(T) on the instance that returned T, Redis
\* answers a GET that it executes after that Login completed and fewer than
\* 60 seconds after it stored the session with the session_id of the
\* instance; and a Validate that is given this answer (its pool.get() and its
\* get do not fail) succeeds, whatever other calls are in flight.
C1_RoundTrip ==
    [][/\ \A c \in BagToSet(calls) :
             (ValidateGet(c) /\ Fresh(c.token)) =>
                 BagIn([c EXCEPT !.value = Data(session_id)], calls')
       /\ (/\ reply = NoReply
           /\ reply'.op = "validate"
           /\ reply'.got = Data(session_id)
           /\ StoreAnswered(reply'))
             => reply'.result = ValidateOk]_vars

\* C1 witness: such a Validate has succeeded within the 60 seconds, after
\* time has passed, while another call was waiting in pool.get() and after a
\* later Login had stored its own session.
C1_Witness ==
    /\ ValidateOfOwnToken
    /\ Fresh(reply.token)
    /\ now > 0
    /\ reply.result = ValidateOk
    /\ waiting # EmptyBag
    /\ \E t \in DOMAIN store : t > reply.token

\* The answer at hand is that of a Validate for a token which a Login of an
\* earlier process has returned and which Redis still holds.
ValidateOfOldToken ==
    /\ reply.op = "validate"
    /\ reply.token \in DOMAIN issued
    /\ issued[reply.token].owner # session_id
    /\ InStore(reply.token)

\* C2 as claimed: after a restart, Validate of a token of the former process
\* that Redis still holds fails with Unauthenticated("wrong session ID").
C2_InstanceBinding_AsClaimed ==
    ValidateOfOldToken => reply.result = Unauthenticated("wrong session ID")

\* C2, amended: after a restart, Validate of a token of the former process
\* that Redis still holds never succeeds, whatever its age, and fails with
\* Unauthenticated("wrong session ID") whenever pool.get() and get do not fail.
C2_InstanceBinding ==
    ValidateOfOldToken =>
        /\ reply.result.status # "Ok"
        /\ StoreAnswered(reply) =>
               reply.result = Unauthenticated("wrong session ID")

\* C2 witness: a token of the former process, stored fewer than 60 seconds
\* ago, has been refused by the new one with "wrong session ID".
C2_Witness ==
    /\ ValidateOfOldToken
    /\ now < StoredAt(reply.token) + TtlSecs
    /\ reply.result = Unauthenticated("wrong session ID")

\* C3: Redis answers the GET of a Validate with a value only if, when it
\* executes the GET, the token is in the store, not expired, with that value;
\* and Validate answers success only if the answer its GET got, and was given
\* to the handler, is the session_id of the process that answers the call,
\* which is the process that sent the GET.
C3_ValidOnlyIfOwned ==
    [][/\ \A c \in BagToSet(calls') :
             (/\ c.op = "validate"
              /\ c.value.kind = "Data"
              /\ CopiesIn(c, calls') > CopiesIn(c, calls))
                 => /\ InStore(c.token)
                    /\ store[c.token].value = c.value.data
       /\ (/\ reply = NoReply
           /\ reply'.op = "validate"
           /\ reply'.result.status = "Ok")
             => /\ reply'.got = Data(session_id)
                /\ reply'.value = reply'.got
                /\ session_id' = session_id
                /\ \E c \in BagToSet(calls) :
                      /\ c.op = "validate"
                      /\ c.token = reply'.token
                      /\ c.value = reply'.got]_vars

\* C3 witness: a Validate has succeeded on a restarted process while Redis
\* also holds a session of the former one.
C3_Witness ==
    /\ reply.op = "validate"
    /\ reply.result.status = "Ok"
    /\ reply.got = Data(session_id)
    /\ \E t \in DOMAIN store : InStore(t) /\ store[t].value # session_id

\* C4 as claimed: Validate of a token whose key is absent from the store
\* when it is read (never issued, or expired) fails with
\* Unauthenticated("wrong session ID").
C4_AbsentKey_AsClaimed ==
    (reply.op = "validate" /\ reply.value = Nil)
        => reply.result = Unauthenticated("wrong session ID")

\* C5 as claimed: a successful Login leaves the session in the store with an
\* expiry of 60 seconds, the lifetime the returned expireAt = now + 60s states.
C5_SameLifetime_AsClaimed ==
    (reply.op = "login" /\ reply.result.status = "Ok") =>
        /\ reply.result.expire_at = now + TtlSecs
        /\ reply.token \in DOMAIN store
        /\ store[reply.token].expires = StoredAt(reply.token) + TtlSecs
        /\ store[reply.token].expires = reply.result.expire_at

\* C6: Login with a user name that is not registered fails with
\* Unauthenticated("user not found"), whatever the password.
C6_UnknownUser ==
    (reply.op = "login" /\ ~Registered(reply.user)) =>
        reply.result = Unauthenticated("user not found")

\* C6 witness: an unregistered name sent with the password of a registered
\* user has been refused with "user not found".
C6_Witness ==
    /\ reply.op = "login"
    /\ ~Registered(reply.user)
    /\ \E i \in DOMAIN USERS : USERS[i].password = reply.password
    /\ reply.result = Unauthenticated("user not found")

\* C7: Login with a registered name and another password than the registered
\* one fails with Unauthenticated("wrong password") and issues no token: the
\* issuer, the store and the calls in flight are as before.
C7_WrongPassword ==
    [][(/\ reply = NoReply
        /\ reply'.op = "login"
        /\ WrongPassword(reply'.user, reply'.password))
          => /\ reply'.result = Unauthenticated("wrong password")
             /\ reply'.token = NotAToken
             /\ nextToken' = nextToken
             /\ store' = store
             /\ issued' = issued
             /\ waiting' = waiting
             /\ calls' = calls]_vars

\* C7 witness: a wrong password has been refused while other tokens were out.
C7_Witness ==
    /\ reply.op = "login"
    /\ WrongPassword(reply.user, reply.password)
    /\ reply.result = Unauthenticated("wrong password")
    /\ nextToken > 0

\* What C8 says of the Login that has just ended: the answer, with expireAt
\* 60 seconds after the clock reading of the handler, a token no other Login
\* has or has returned, and the key of the token set in the store to the
\* session_id of the process.
LoginSucceeded ==
    /\ reply'.result = LoginOk(reply'.token, now' + TtlSecs)
    /\ reply'.token # NotAToken
    /\ reply'.token \notin DOMAIN issued
    /\ \A call \in BagToSet(waiting' (+) calls') :
          call.op = "login" => call.token # reply'.token
    /\ reply'.token \in DOMAIN store'
    /\ store'[reply'.token].value = session_id'
    /\ now' < store'[reply'.token].expires =>
          RedisGet(store', reply'.token, now') = Data(session_id')

\* C8 as claimed: for every registered (user, password), Login succeeds with
\* a fresh token and expireAt = now + 60s, and the store then maps the token
\* to the session_id of the process.
C8_LoginSucceeds_AsClaimed ==
    [][(/\ reply = NoReply
        /\ reply'.op = "login"
        /\ RegisteredPair(reply'.user, reply'.password))
          => LoginSucceeded]_vars

\* C8, amended: the same, unless pool.get() or set_ex fails; expireAt counts
\* from the clock reading taken after set_ex has returned, and the store maps
\* the token to the session_id for as long as the key has not expired.
C8_LoginSucceeds ==
    [][(/\ reply = NoReply
        /\ reply'.op = "login"
        /\ RegisteredPair(reply'.user, reply'.password)
        /\ StoreAnswered(reply'))
          => LoginSucceeded]_vars

\* C8 witness: a Login has returned after time has passed since Redis stored
\* its session, with expireAt 60 seconds after its return, while the store
\* holds another session of the running process.
C8_Witness ==
    /\ reply.op = "login"
    /\ reply.result.status = "Ok"
    /\ StoredAt(reply.token) < now
    /\ reply.result.expire_at = now + TtlSecs
    /\ \E t \in DOMAIN store :
          t # reply.token /\ InStore(t) /\ store[t].value = session_id

\* C9 as claimed: when set_ex fails, Login returns an Internal status.
C9_SetFailure_AsClaimed ==
    (reply.op = "login" /\ reply.value = StoreErr) =>
        reply.result.status = "Internal"

\* C10 as claimed: when get fails, Validate returns an Internal status, not
\* an Unauthenticated one.
C10_GetFailure_AsClaimed ==
    (reply.op = "validate" /\ reply.value = StoreErr) =>
        reply.result.status = "Internal"

\* C11 as claimed: when pool.get() fails, in Login or in Validate, the handler
\* returns an Internal status; it does not panic.
C11_PoolFailure_AsClaimed ==
    (reply.op \in {"login", "validate"} /\ reply.value = PoolErr) =>
        /\ reply.result.status = "Internal"
        /\ reply.result.status # "Panic"

\* C12: when conn.get returns to a Validate bytes that are not valid UTF-8
\* (the value stored under the token cannot be decoded), the Validate fails
\* with an Internal status that carries the decode error, never with success
\* and never with an Unauthenticated status, and its span is marked as an
\* error.
C12_NotUtf8 ==
    (/\ reply.op = "validate"
     /\ reply.value.kind = "Data"
     /\ ~FromUtf8Ok(reply.value.data))
        => /\ reply.result = Internal(Utf8ErrorText)
           /\ reply.result # ValidateOk
           /\ reply.result.status # "Unauthenticated"
           /\ reply.span.error
           /\ reply.span.recorded = Utf8ErrorText

\* C12 happens: the other client has put bytes that are not UTF-8 under a
\* token a Login has returned, Redis has answered the GET of a Validate of
\* that token with them, the answer has reached the handler, and the call
\* has ended with the Internal status.
C12_Witness ==
    /\ reply.op = "validate"
    /\ reply.token \in DOMAIN issued
    /\ reply.got.kind = "Data"
    /\ reply.got.data = NotUtf8
    /\ reply.value = reply.got
    /\ reply.result.status = "Internal"

\* C13: Logins that run at the same time (waiting in pool.get() or holding a
\* connection) hold tokens that differ from one another and from every token
\* returned before, and every session a Login
\* has stored stays in the store as it was stored: its key still maps to the
\* session_id of the process that stored it, also while its Login has not yet
\* returned, so that all the sessions of the running process that are not yet
\* 60 seconds old are valid together. No later Login overwrites or removes
\* the session of an earlier one.
C13_ConcurrentLogins ==
    /\ \A c \in BagToSet(InFlight) :
          c.op = "login" =>
             /\ CopiesIn(c, InFlight) = 1
             /\ c.token \notin DOMAIN issued
             /\ \A d \in BagToSet(InFlight) :
                   (d.op = "login" /\ d # c) => d.token # c.token
             /\ c.value = Okay =>
                   /\ c.token \in DOMAIN store
                   /\ store[c.token].value = session_id
    /\ \A t \in DOMAIN issued :
          /\ t \in DOMAIN store
          /\ store[t].value = issued[t].owner
          /\ (issued[t].owner = session_id /\ now < StoredAt(t) + TtlSecs)
                => RedisGet(store, t, now) = Data(session_id)

\* C13 witness: a Login of the second registered user has succeeded whose
\* token was drawn before that of a Login which has returned first (the two
\* ran at the same time), and both sessions are valid.
C13_Witness ==
    /\ reply.op = "login"
    /\ reply.result.status = "Ok"
    /\ reply.user = "user"
    /\ \E t \in DOMAIN issued :
          /\ t > reply.token
          /\ RedisGet(store, t, now) = Data(session_id)
          /\ RedisGet(store, reply.token, now) = Data(session_id)

\* A reply or a call without its span.
SpanApart(r) == [r EXCEPT !.span = NoSpan]

\* The same call with the other parent of its span.
Reparented(call, parent) == [call EXCEPT !.span.parent = parent]

\* C14: in every state in which a handler can take a step, a request handled
\* with any trace metadata ends as the same request without trace metadata
\* does: the same reply (status, message, token, expire_at, what the store
\* layer answered), the same token drawn, the same connection taken, the
\* same command executed on the same store and the same record of returned
\* tokens; only the spans differ. This holds for the part of Login and of
\* Validate up to pool.get() and, for the calls in flight, for the return of
\* pool.get(), for the command and for the part after it, whatever the
\* parent of the call's span.
C14_TracingNonInterference ==
    reply = NoReply =>
    /\ \A u \in UserInputs, p \in PasswordInputs, m \in MetaInputs :
          LET a == LoginBegin(u, p, m)
              b == LoginBegin(u, p, "none")
          IN /\ SpanApart(a.reply) = SpanApart(b.reply)
             /\ SpanApart(a.call) = SpanApart(b.call)
             /\ a.drew = b.drew
    /\ \A t \in TokenInputs, m \in MetaInputs :
          LET a == ValidateBegin(t, m)
              b == ValidateBegin(t, "none")
          IN /\ SpanApart(a.reply) = SpanApart(b.reply)
             /\ SpanApart(a.call) = SpanApart(b.call)
    /\ \A c \in BagToSet(waiting), parent \in {NoParent, RemoteParent},
          ok \in BOOLEAN :
          LET a == IF c.op = "login" THEN LoginPoolGet(c, ok)
                   ELSE ValidatePoolGet(c, ok)
              b == IF c.op = "login"
                   THEN LoginPoolGet(Reparented(c, parent), ok)
                   ELSE ValidatePoolGet(Reparented(c, parent), ok)
          IN /\ SpanApart(a.reply) = SpanApart(b.reply)
             /\ SpanApart(a.call) = SpanApart(b.call)
             /\ a.inUse = b.inUse
    /\ \A c \in BagToSet(calls), parent \in {NoParent, RemoteParent} :
          LET a == IF c.op = "login" THEN LoginCommand(c)
                   ELSE ValidateCommand(c)
              b == IF c.op = "login" THEN LoginCommand(Reparented(c, parent))
                   ELSE ValidateCommand(Reparented(c, parent))
          IN /\ SpanApart(a.call) = SpanApart(b.call)
             /\ a.store = b.store
    /\ \A c \in BagToSet(calls), parent \in {NoParent, RemoteParent},
          ok \in BOOLEAN :
          IF c.op = "login"
          THEN LET a == LoginFinish(c, ok)
                   b == LoginFinish(Reparented(c, parent), ok)
               IN /\ SpanApart(a.reply) = SpanApart(b.reply)
                  /\ a.issued = b.issued
                  /\ a.inUse = b.inUse
          ELSE LET a == ValidateFinish(c, ok)
                   b == ValidateFinish(Reparented(c, parent), ok)
               IN /\ SpanApart(a.reply) = SpanApart(b.reply)
                  /\ a.inUse = b.inUse

\* C14 witness: a Validate whose request carried the trace header of a
\* caller's span has succeeded, for a session that is in the store, and a
\* request without the header would now get a span with another parent.
C14_Witness ==
    /\ reply.op = "validate"
    /\ reply.result = ValidateOk
    /\ reply.span.parent = RemoteParent
    /\ InStore(reply.token)
    /\ ValidateBegin(reply.token, "none").call.span.parent
          # reply.span.parent

\* C15 as claimed: every Login and every Validate that ends without success
\* (unknown user, wrong password, store failure, pool failure, session not
\* found, owner mismatch, decode failure) has marked its span as errored and
\* recorded the error in it when the call ends, and ends with a status.
C15_ErrorPathsAnnotated_AsClaimed ==
    (reply.op \in {"login", "validate"} /\ reply.result.status # "Ok") =>
        /\ reply.span.error
        /\ reply.span.recorded = reply.result.msg
        /\ reply.result.status \in {"Unauthenticated", "Internal"}

\* A step of a Validate: one arrives, pool.get() returns in one, Redis
\* executes the GET of one, or one ends.
ValidateStepped ==
    \/ reply = NoReply /\ reply'.op = "validate"
    \/ \E c \in BagToSet(waiting') :
          c.op = "validate" /\ CopiesIn(c, waiting') > CopiesIn(c, waiting)
    \/ \E c \in BagToSet(calls') :
          c.op = "validate" /\ CopiesIn(c, calls') > CopiesIn(c, calls)

\* C16: no step of a Validate changes the store, however the Validate ends:
\* no key is set, removed, or given another value or another expiry.
C16_ValidateReadOnly ==
    [][ValidateStepped => store' = store]_vars

\* C16 witness: a Validate has succeeded after time has passed, and the
\* session is in the store with the value and the expiry the SETEX of its
\* Login has set at the start.
C16_Witness ==
    /\ reply.op = "validate"
    /\ reply.result = ValidateOk
    /\ now > 0
    /\ reply.token \in DOMAIN store
    /\ store[reply.token] =
          [value |-> session_id, expires |-> SetExArg(TtlSecs)]

\* C17: the store is empty at the start, and a step changes the store only
\* by setting one new key: the token of a Login in flight, whose (user,
\* password) is a registered pair and whose SETEX Redis executes in this
\* step; the token is one the issuer has drawn, and the value is the
\* session_id of the process, which is the same before and after the step.
\* No key is removed or set again. The session_id changes only when the
\* process is replaced, and no call lives through that. So in every reachable
\* state every key of the store is a token drawn after a successful
\* credential check and its value the session_id of the process that handled
\* that Login, whether or not that Login has returned the token.
C17_StoreOnlySessions ==
    [][/\ \A t \in DOMAIN store' :
             \/ t \in DOMAIN store /\ store'[t] = store[t]
             \/ /\ t \notin DOMAIN store
                /\ reply = NoReply
                /\ reply' = NoReply
                /\ \E c \in BagToSet(calls) :
                      /\ c.op = "login"
                      /\ c.token = t
                      /\ c.value = NoValue
                      /\ RegisteredPair(c.user, c.password)
                /\ t \in 1..nextToken
                /\ store'[t].value = session_id
                /\ session_id' = session_id
       /\ \A t \in DOMAIN store : t \in DOMAIN store'
       /\ \A t \in DOMAIN issued' :
             /\ t \in DOMAIN store'
             /\ store'[t].value = issued'[t].owner
       /\ session_id' # session_id =>
             /\ waiting' = EmptyBag
             /\ calls' = EmptyBag
             /\ inUse' = 0
             /\ reply' = NoReply]_vars

\* C17 witness: a Login has succeeded on a restarted process while the store
\* holds a session of the former one, and one of a Login that did not return
\* its token: the keys carry two session_ids.
C17_Witness ==
    /\ reply.op = "login"
    /\ reply.result.status = "Ok"
    /\ store[reply.token].value = session_id
    /\ \E t \in DOMAIN store : store[t].value < session_id
    /\ \E t \in DOMAIN store : t \notin DOMAIN issued

\* C18 as claimed: the store operation of a call that its caller has
\* cancelled before Redis executed the command is aborted: Redis does not
\* execute the SETEX or the GET of such a call.
C18_CancelAborts_AsClaimed ==
    [][\A c \in BagToSet(calls) :
          (c.cancelled /\ c.value = NoValue) =>
              ~(LoginStore(c) \/ ValidateGet(c))]_vars

\* C19: a Login whose (user, password) is not a registered pair ends
\* rejected, with no answer of the store layer, in the step in which it
\* arrives: it takes no connection, draws no token and sends no command; the
\* store, the number of connections checked out and the calls in flight are
\* as before. Since it does not reach pool.get(), it ends so also while all
\* connections are checked out.
C19_RejectedLoginNoStore ==
    [][(/\ reply = NoReply
        /\ reply'.op = "login"
        /\ ~RegisteredPair(reply'.user, reply'.password))
          => /\ reply'.result.status = "Unauthenticated"
             /\ reply'.value = NoValue
             /\ store' = store
             /\ inUse' = inUse
             /\ waiting' = waiting
             /\ calls' = calls
             /\ nextToken' = nextToken]_vars

\* C19 witness: a Login has been rejected while every connection of the pool
\* was checked out, another call was waiting for one, and the store held a
\* session.
C19_Witness ==
    /\ reply.op = "login"
    /\ reply.result.status = "Unauthenticated"
    /\ inUse = PoolSize
    /\ BagCardinality(calls) = PoolSize
    /\ waiting # EmptyBag
    /\ DOMAIN store # {}

\* C20: at any time the connections checked out are as many as the calls
\* between their pool.get() and their return, one for each, and never more
\* than the pool has; a call that still waits in pool.get() and a call that
\* has ended, by a response, an error or a panic, hold none; with no call
\* past its pool.get() none is checked out.
C20_PoolAccounting ==
    /\ inUse \in 0..PoolSize
    /\ inUse = BagCardinality(calls)
    /\ calls = EmptyBag => inUse = 0
    /\ \A c \in BagToSet(waiting) : c.value = NoValue

\* C20 witness: with every connection checked out and another call waiting
\* for one, a Login whose SETEX Redis has executed has ended by the panic of
\* a failed set_ex: its session is in the store and its connection is back
\* in the pool, for the call that waits.
C20_Witness ==
    /\ reply.op = "login"
    /\ reply.value = StoreErr
    /\ reply.got = Okay
    /\ reply.token \in DOMAIN store
    /\ inUse = PoolSize - 1
    /\ BagCardinality(calls) = PoolSize - 1
    /\ waiting # EmptyBag

====
